---- MODULE Spec2Model ----
(***************************************************************************)
(* Traffic-signal simulation and control of a four-approach intersection:  *)
(* the per-second queueing engines (SumoToy, the minimal NeatAdapter and   *)
(* EnhancedNeatAdapter) and the hybrid decision controller                 *)
(* (HybridController.decide).                                              *)
(***************************************************************************)
EXTENDS Integers, Sequences, FiniteSets, TLC

(* ------------------------------ bounds -------------------------------- *)

\* SumoToy / NeatAdapter: ticks + switch_phase() calls + arriving vehicles of
\* one episode (an episode is what follows one reset())
MaxEpisode == 8
\* EnhancedNeatAdapter: ticks + _switch_phase() calls of one episode
MaxTicks == 9
\* HybridController.decide: largest queue of an approach in the state mapping
MaxQueue == 1
\* HybridController.decide: calls made on one controller and one state mapping
MaxDecideCalls == 2
\* engine instances sharing np.random: step() calls of one instance
MaxStreamSteps == 2
\* engine instances sharing np.random: TrafficSimulator.generate_arrivals is
\* called while fewer than this many draws were made since the last seeding
MaxStreamPos == 20
\* run_professional_tab: rows of the frame the map is drawn from
MaxMapRows == 2
\* compute_phase_plan: vehicle counts are 0, CountStep, ..., MaxCount * CountStep
MaxCount == 2
\* compute_phase_plan: largest queue estimate of an approach
MaxPlanQueue == 1
\* evaluate_sequence: rows of the frame
MaxRows == 3
\* metrics(): frames the interpreter allows on the call stack (the recursion limit)
MaxStack == 6
\* metrics(): ticks + switch calls + arriving vehicles before the call
MaxMetricsEpisode == 3
\* run_episode, adaptive mode: sim_duration_sec
MaxAdaptiveTicks == 18
\* run_episode, 'Fixed 40s' mode: sim_duration_sec
MaxFixedTicks == 43
\* run_episode, 'Fixed 40s' mode: vehicles arriving in the episode
MaxFixedArrivals == 4
\* run_episode: vehicles queued on the four approaches together
MaxEpisodeQueue == 4

(* --------------------------- static model ----------------------------- *)

Approaches == {"North", "East", "South", "West"}

\* the iteration order of self.approaches
approaches == <<"North", "East", "South", "West">>

\* self.phases = {0: ["North", "South"], 1: ["East", "West"]}
phases == [pid \in {0, 1} |-> IF pid = 0 THEN {"North", "South"} ELSE {"East", "West"}]

ToyEngines == {"SumoToy", "NeatAdapter"}

Engines == ToyEngines \cup {"EnhancedNeatAdapter"}

yellow == 3

all_red == 1

Min(a, b) == IF a <= b THEN a ELSE b

Max(a, b) == IF a >= b THEN a ELSE b

RECURSIVE GCD(_, _)
GCD(a, b) == IF b = 0 THEN a ELSE GCD(b, a % b)

\* sum of a function over the four approaches
SumAll(f) == f["North"] + f["East"] + f["South"] + f["West"]

Zeros == [a \in Approaches |-> 0]

(* ----------------------- Python float (binary64) ---------------------- *)

\* A float is [neg, mant, exp], its value (-1)^neg * mant * 2^exp with mant a
\* natural number of at most MantissaBits bits. mant is held as its digits in
\* base Limb, the least significant first and the most significant not 0, so
\* that no product leaves the integers; 0 is the empty sequence.
Limb == 2^15

\* the bits of the significand of a binary64
MantissaBits == 53

\* the element of a one-element set. An operator below that uses an argument
\* more than once binds it first, as in Only({e(x) : x \in {arg}}), so that the
\* argument is evaluated once
Only(S) == CHOOSE r \in S : TRUE

RECURSIVE IntBitLen(_)
IntBitLen(n) == IF n = 0 THEN 0 ELSE 1 + IntBitLen(n \div 2)

LimbBits == IntBitLen(Limb) - 1

RECURSIVE BNormTo(_, _)
BNormTo(a, n) ==
    IF n = 0 THEN <<>>
    ELSE IF a[n] = 0 THEN BNormTo(a, n - 1)
    ELSE SubSeq(a, 1, n)

\* a without its leading zero digits
BNorm(a0) == Only({BNormTo(a, Len(a)) : a \in {a0}})

RECURSIVE BFromInt(_)
BFromInt(n) == IF n = 0 THEN <<>> ELSE <<n % Limb>> \o BFromInt(n \div Limb)

RECURSIVE BToIntFrom(_, _)
BToIntFrom(a, i) == IF i > Len(a) THEN 0 ELSE a[i] + Limb * BToIntFrom(a, i + 1)

\* the integer a digit sequence stands for, where it is below 2^31
BToInt(a0) == Only({BToIntFrom(a, 1) : a \in {a0}})

Digit(a, i) == IF i <= Len(a) THEN a[i] ELSE 0

RECURSIVE BAddFrom(_, _, _, _)
BAddFrom(a, b, i, carry) ==
    IF i > Len(a) /\ i > Len(b) THEN (IF carry = 0 THEN <<>> ELSE <<carry>>)
    ELSE Only({<<t % Limb>> \o BAddFrom(a, b, i + 1, t \div Limb) :
                  t \in {Digit(a, i) + Digit(b, i) + carry}})

BAdd(a0, b0) == Only({BAddFrom(a, b, 1, 0) : a \in {a0}, b \in {b0}})

RECURSIVE BSubFrom(_, _, _, _)
BSubFrom(a, b, i, borrow) ==
    IF i > Len(a) THEN <<>>
    ELSE Only({IF t < 0 THEN <<t + Limb>> \o BSubFrom(a, b, i + 1, 1)
               ELSE <<t>> \o BSubFrom(a, b, i + 1, 0) :
                  t \in {Digit(a, i) - Digit(b, i) - borrow}})

\* a - b for a >= b
BSub(a0, b0) == BNorm(Only({BSubFrom(a, b, 1, 0) : a \in {a0}, b \in {b0}}))

RECURSIVE BCmpFrom(_, _, _)
BCmpFrom(a, b, i) ==
    IF i = 0 THEN 0
    ELSE IF a[i] # b[i] THEN (IF a[i] < b[i] THEN -1 ELSE 1)
    ELSE BCmpFrom(a, b, i - 1)

\* -1, 0 or 1 as a is below, equal to or above b
BCmp(a0, b0) ==
    Only({IF Len(a) # Len(b) THEN (IF Len(a) < Len(b) THEN -1 ELSE 1)
          ELSE BCmpFrom(a, b, Len(a)) : a \in {a0}, b \in {b0}})

RECURSIVE BMulSmallFrom(_, _, _, _)
BMulSmallFrom(a, k, i, carry) ==
    IF i > Len(a) THEN (IF carry = 0 THEN <<>> ELSE <<carry>>)
    ELSE Only({<<t % Limb>> \o BMulSmallFrom(a, k, i + 1, t \div Limb) :
                  t \in {a[i] * k + carry}})

\* a * k for 0 <= k < Limb
BMulSmall(a0, k0) ==
    Only({IF k = 0 THEN <<>> ELSE BMulSmallFrom(a, k, 1, 0) : a \in {a0}, k \in {k0}})

\* a * Limb^n
ShiftLimbs(a0, n) == Only({IF a = <<>> THEN a ELSE [j \in 1..n |-> 0] \o a : a \in {a0}})

RECURSIVE BMulFrom(_, _, _)
BMulFrom(a, b, i) ==
    IF i > Len(a) THEN <<>>
    ELSE BAdd(ShiftLimbs(BMulSmall(b, a[i]), i - 1), BMulFrom(a, b, i + 1))

BMul(a0, b0) == Only({BMulFrom(a, b, 1) : a \in {a0}, b \in {b0}})

RECURSIVE BDivFrom(_, _, _, _)
BDivFrom(a, k, i, rem) ==
    IF i = 0 THEN [q |-> <<>>, r |-> rem]
    ELSE Only({Only({[q |-> Append(lower.q, cur \div k), r |-> lower.r] :
                        lower \in {BDivFrom(a, k, i - 1, cur % k)}}) :
                  cur \in {rem * Limb + a[i]}})

\* quotient and remainder of a by k, 0 < k <= Limb
BDivSmall(a0, k0) ==
    Only({[q |-> BNorm(d.q), r |-> d.r] :
             d \in {Only({BDivFrom(a, k, Len(a), 0) : a \in {a0}, k \in {k0}})}})

\* a * 2^n
RECURSIVE BShl(_, _)
BShl(a, n) ==
    IF n >= LimbBits THEN BShl(ShiftLimbs(a, 1), n - LimbBits)
    ELSE BMulSmall(a, 2^n)

RECURSIVE BShrFrom(_, _, _)
BShrFrom(a, n, i) ==
    IF i > Len(a) THEN <<>>
    ELSE IF n >= LimbBits THEN BShrFrom(a, n - LimbBits, i + 1)
    ELSE BDivSmall(SubSeq(a, i, Len(a)), 2^n).q

\* a \div 2^n
BShr(a0, n0) == Only({BShrFrom(a, n, 1) : a \in {a0}, n \in {n0}})

BBitLen(a0) ==
    Only({IF a = <<>> THEN 0 ELSE (Len(a) - 1) * LimbBits + IntBitLen(a[Len(a)]) :
             a \in {a0}})

\* a / 2^d for d > 0, to the nearest integer, a half going to the even one
BRoundShift(a0, d0) ==
    Only({Only({IF c > 0 \/ (c = 0 /\ Digit(q, 1) % 2 = 1) THEN BAdd(q, <<1>>) ELSE q :
                   c \in {BCmp(BSub(a, BShl(q, d)), BShl(<<1>>, d - 1))}}) :
             q \in {BShr(a0, d0)}, a \in {a0}, d \in {d0}})

\* how often 2 divides n > 0
RECURSIVE IntTrailingZeros(_)
IntTrailingZeros(n) == IF n % 2 = 1 THEN 0 ELSE 1 + IntTrailingZeros(n \div 2)

\* how often 2 divides a # 0, from the i-th digit on
RECURSIVE BTrailingZeros(_, _)
BTrailingZeros(a, i) ==
    IF a[i] = 0 THEN LimbBits + BTrailingZeros(a, i + 1)
    ELSE IntTrailingZeros(a[i])

\* the same value with an odd mant
FNorm(x0) ==
    Only({IF x.mant = <<>> THEN [neg |-> FALSE, mant |-> <<>>, exp |-> 0]
          ELSE Only({[neg |-> x.neg, mant |-> BShr(x.mant, z), exp |-> x.exp + z] :
                        z \in {BTrailingZeros(x.mant, 1)}}) :
             x \in {x0}})

\* the float nearest to (-1)^neg * n * 2^e (round to nearest, ties to even)
FRound(neg, n0, e) ==
    Only({Only({IF d <= 0 THEN FNorm([neg |-> neg, mant |-> n, exp |-> e])
                ELSE FNorm([neg |-> neg, mant |-> BRoundShift(n, d), exp |-> e + d]) :
                   d \in {BBitLen(n) - MantissaBits}}) :
             n \in {n0}})

\* float(n) for an int n
FInt(n) == FNorm([neg |-> n < 0, mant |-> BFromInt(IF n < 0 THEN -n ELSE n), exp |-> 0])

FNeg(x0) == Only({IF x.mant = <<>> THEN x ELSE [x EXCEPT !.neg = ~x.neg] : x \in {x0}})

\* x * y
FMul(x0, y0) ==
    Only({FRound(x.neg # y.neg, BMul(x.mant, y.mant), x.exp + y.exp) :
             x \in {x0}, y \in {y0}})

\* the sum of (-1)^xneg * a * 2^e and (-1)^yneg * b * 2^e
FAddAligned(xneg, a, yneg, b, e) ==
    IF xneg = yneg THEN FRound(xneg, BAdd(a, b), e)
    ELSE IF BCmp(a, b) >= 0 THEN FRound(xneg, BSub(a, b), e)
    ELSE FRound(yneg, BSub(b, a), e)

\* x + y
FAdd(x0, y0) ==
    Only({Only({FAddAligned(x.neg, a, y.neg, b, Min(x.exp, y.exp)) :
                   a \in {BShl(x.mant, x.exp - Min(x.exp, y.exp))},
                   b \in {BShl(y.mant, y.exp - Min(x.exp, y.exp))}}) :
             x \in {x0}, y \in {y0}})

\* x - y
FSub(x, y) == FAdd(x, FNeg(y))

\* the quotient of a * 2^xexp by k * 2^yexp, t being the bits that bring the
\* integer quotient to more than MantissaBits + 1 bits
FDivBy(neg, a, xexp, k, yexp, t) ==
    Only({FRound(neg, BAdd(BMulSmall(d.q, 2), IF d.r = 0 THEN <<>> ELSE <<1>>),
                 xexp - yexp - t - 1) :
             d \in {BDivSmall(BShl(a, t), k)}})

\* x / y for a y whose odd mant is below Limb (an int, or an int and a half)
FDiv(x0, y0) ==
    Only({IF x.mant = <<>> THEN x
          ELSE FDivBy(x.neg # y.neg, x.mant, x.exp, y.mant[1], y.exp,
                      Max(0, MantissaBits + 2 + IntBitLen(y.mant[1]) - BBitLen(x.mant))) :
             x \in {x0}, y \in {y0}})

\* x < y
FLess(x, y) == Only({d.mant # <<>> /\ d.neg : d \in {FSub(x, y)}})

\* max(x, y) and min(x, y), which return their first argument on a tie
FMax(x0, y0) == Only({IF FLess(x, y) THEN y ELSE x : x \in {x0}, y \in {y0}})

FMin(x0, y0) == Only({IF FLess(y, x) THEN y ELSE x : x \in {x0}, y \in {y0}})

\* int(x): towards zero
FTrunc(x0) ==
    Only({Only({IF x.neg THEN -m ELSE m :
                   m \in {IF x.exp >= 0 THEN BToInt(BShl(x.mant, x.exp))
                          ELSE BToInt(BShr(x.mant, -x.exp))}}) :
             x \in {x0}})

\* the digits of format(x, ".0f"): the nearest integer, a half going to the even one
FFormat0(x0) ==
    Only({Only({IF x.neg THEN -m ELSE m :
                   m \in {IF x.exp >= 0 THEN BToInt(BShl(x.mant, x.exp))
                          ELSE BToInt(BRoundShift(x.mant, -x.exp))}}) :
             x \in {x0}})

VARIABLES
    engine,       \* which engine class the instance is
    state,        \* self.state: approach -> [q, last_arrival, max_wait]
    mix,          \* EnhancedNeatAdapter: approach -> [total_arrivals, total_served, vehicle_types]
    cur_phase,    \* self.cur_phase (self.current_phase in EnhancedNeatAdapter)
    t_in_phase,   \* self.t_in_phase (self.time_in_phase)
    transition,   \* self.transition (self.transition_timer)
    time,         \* self.time (self.simulation_time)
    last_generation_time, \* EnhancedNeatAdapter: self.last_generation_time
    served_hist,  \* self._served_hist, as what metrics() reads of it: [len, sum]
    wait_hist,    \* self._wait_hist, as what metrics() reads of it: [len, num, den], sum = num/den
    served,       \* the "served" mapping of the snapshot step() returned last
    arrivals,     \* history: the arrival draws of the last step()
    sinceSwitch,  \* history: step() calls since the last switch_phase() (-1: none yet)
    balance,      \* history: per approach, arrivals minus served counts since reset()
    nSwitch,      \* history: switch calls since reset()
    nArrived,     \* history: vehicles arrived since reset()
    last_call,    \* history: the engine call that returned last ("init": the constructor)
    d_in,         \* a call of a pure function: the object's fields and the call's arguments
    d_out,        \* what the call returned, or the error it raised
    np_random,    \* the module-level numpy generator np.random: [seed, pos]
    inst,         \* the engine instances drawing from np.random: id -> [cls, seed, draws]
    app_drew      \* history: the instances since whose construction code other than
                  \* the engines has drawn from np.random

vars == <<engine, state, mix, cur_phase, t_in_phase, transition, time,
          last_generation_time, served_hist, wait_hist, served, arrivals,
          sinceSwitch, balance, nSwitch, nArrived, last_call, d_in, d_out,
          np_random, inst, app_drew>>

decideVars == <<d_in, d_out>>

streamVars == <<np_random, inst, app_drew>>

engineVars == <<engine, state, mix, cur_phase, t_in_phase, transition, time,
                last_generation_time, served_hist, wait_hist, served, arrivals,
                sinceSwitch, balance, nSwitch, nArrived, last_call>>

(* ----------------------- SumoToy / NeatAdapter ------------------------ *)

\* _reset_state: every approach {"q": 0, "last_arrival": 0, "max_wait": 0}
ResetState == [a \in Approaches |-> [q |-> 0, last_arrival |-> 0, max_wait |-> 0]]

\* rate: veh/s capacity of a green approach (2 in SumoToy, 3 in NeatAdapter)
Rate(e) == IF e = "SumoToy" THEN 2 ELSE 3

\* the arrivals loop body of step() for one approach
Arrive(st, n) ==
    LET q1 == st.q + n
    IN  [q |-> q1,
         last_arrival |-> IF n > 0 THEN 0 ELSE st.last_arrival + 1,
         max_wait |-> IF q1 > 0 THEN st.max_wait + 1 ELSE 0]

\* C10 mutant: the capacity recorded as served, whatever the queue holds
ServedCountMut(q, rate) == rate

\* s = min(int(q), rate)
ServedCount(q, rate) == Min(q, rate)

\* C22 mutant: the emptied queue clamped without resetting max_wait
ServeMut(st, s) ==
    LET q1 == st.q - s
    IN  IF q1 <= 0 THEN [st EXCEPT !.q = 0]
        ELSE [st EXCEPT !.q = q1]

\* the service loop body of step() for one green approach, s vehicles served
Serve(st, s) ==
    LET q1 == st.q - s
    IN  IF q1 <= 0 THEN [st EXCEPT !.q = 0, !.max_wait = 0]
        ELSE [st EXCEPT !.q = q1]

\* C1 mutant: the all-red second left out of the transition
TransitionLengthMut == yellow

\* self.transition = self.yellow + self.all_red
TransitionLength == yellow + all_red

\* C9 mutant: service not gated by the transition countdown
GreenMut(trans, phase) == phases[phase]

\* "serve if not in transition": the approaches step() serves
Green(trans, phase) == IF trans = 0 THEN phases[phase] ELSE {}

\* the history counter of steps since the last switch, kept up to this value
SinceCap == TransitionLength + 2

\* avg_wait_proxy = sum(max_wait) / max(1, int(sum(q))), as <<numerator, denominator>>
WaitProxy(s) ==
    <<SumAll([a \in Approaches |-> s[a].max_wait]),
      Max(1, SumAll([a \in Approaches |-> s[a].q]))>>

\* self._wait_hist.append(x) for x = p[1]/p[2]: the running sum, in lowest terms
AppendWait(h, p) ==
    LET n == h.num * p[2] + p[1] * h.den
        d == h.den * p[2]
        g == GCD(n, d)
    IN  [len |-> h.len + 1, num |-> n \div g, den |-> d \div g]

\* self._served_hist.append(x)
AppendServed(h, x) == [len |-> h.len + 1, sum |-> h.sum + x]

EmptyServedHist == [len |-> 0, sum |-> 0]

EmptyWaitHist == [len |-> 0, num |-> 0, den |-> 1]

NoMix == [a \in Approaches |-> 0]

\* no decide() call in progress
NoCall == [op |-> "none"]

NoResult == <<>>

\* C20 mutant: reset() without self._wait_hist.clear()
ResetFieldsMut ==
    /\ state' = ResetState
    /\ cur_phase' = 0
    /\ t_in_phase' = 0
    /\ transition' = 0
    /\ time' = 0
    /\ served_hist' = EmptyServedHist
    /\ wait_hist' = wait_hist
    /\ served' = Zeros
    /\ arrivals' = Zeros
    /\ sinceSwitch' = -1
    /\ balance' = Zeros
    /\ nSwitch' = 0
    /\ nArrived' = 0
    /\ last_call' = "reset"

\* the fields reset() and __init__ set, and the history counters of a new episode
ResetFields ==
    /\ state' = ResetState
    /\ cur_phase' = 0
    /\ t_in_phase' = 0
    /\ transition' = 0
    /\ time' = 0
    /\ served_hist' = EmptyServedHist
    /\ wait_hist' = EmptyWaitHist
    /\ served' = Zeros
    /\ arrivals' = Zeros
    /\ sinceSwitch' = -1
    /\ balance' = Zeros
    /\ nSwitch' = 0
    /\ nArrived' = 0
    /\ last_call' = "reset"

\* SumoToy.__init__ / NeatAdapter.__init__
ToyInitFields(e) ==
    /\ engine = e
    /\ state = ResetState
    /\ mix = NoMix
    /\ cur_phase = 0
    /\ t_in_phase = 0
    /\ transition = 0
    /\ time = 0
    /\ last_generation_time = 0
    /\ served_hist = EmptyServedHist
    /\ wait_hist = EmptyWaitHist
    /\ served = Zeros
    /\ arrivals = Zeros
    /\ sinceSwitch = -1
    /\ balance = Zeros
    /\ nSwitch = 0
    /\ nArrived = 0
    /\ last_call = "init"

\* np.random as one engine instance sees it: the stream itself is not followed
NoStream == [seed |-> -1, pos |-> 0]

NoInstances == <<>>

StreamIdle == np_random = NoStream /\ inst = NoInstances /\ app_drew = {}

ToyInit(e) == ToyInitFields(e) /\ d_in = NoCall /\ d_out = NoResult /\ StreamIdle

\* reset()
Reset ==
    /\ engine \in ToyEngines
    /\ ResetFields
    /\ UNCHANGED <<engine, mix, last_generation_time, decideVars, streamVars>>

\* step(): arr is the Poisson draw of each approach
StepWith(arr) ==
    LET arrived == [a \in Approaches |-> Arrive(state[a], arr[a])]
        green == Green(transition, cur_phase)
        s == [a \in Approaches |->
                 IF a \in green THEN ServedCount(arrived[a].q, Rate(engine)) ELSE 0]
        after == [a \in Approaches |->
                     IF a \in green THEN Serve(arrived[a], s[a]) ELSE arrived[a]]
    IN  /\ time' = time + 1
        /\ state' = after
        /\ served' = s
        /\ IF transition = 0
           THEN /\ t_in_phase' = t_in_phase + 1
                /\ transition' = transition
           ELSE /\ transition' = transition - 1
                /\ t_in_phase' = IF transition - 1 <= 0 THEN 0 ELSE t_in_phase
        /\ served_hist' = AppendServed(served_hist, SumAll(s))
        /\ wait_hist' = AppendWait(wait_hist, WaitProxy(after))
        /\ arrivals' = arr
        /\ sinceSwitch' = IF sinceSwitch < 0 THEN sinceSwitch
                          ELSE Min(sinceSwitch + 1, SinceCap)
        /\ balance' = [a \in Approaches |-> balance[a] + arr[a] - s[a]]
        /\ nArrived' = nArrived + SumAll(arr)
        /\ last_call' = "step"
        /\ UNCHANGED <<engine, mix, last_generation_time, cur_phase, nSwitch, decideVars, streamVars>>

\* what is left of the episode's budget
Budget == MaxEpisode - time - nSwitch - nArrived

Step ==
    /\ engine \in ToyEngines
    /\ Budget >= 1
    /\ \E arr \in [Approaches -> 0..(Budget - 1)] :
          /\ SumAll(arr) <= Budget - 1
          /\ StepWith(arr)

\* switch_phase()
SwitchPhase ==
    /\ engine \in ToyEngines
    /\ Budget >= 1
    /\ transition' = TransitionLength
    /\ cur_phase' = 1 - cur_phase
    /\ sinceSwitch' = 0
    /\ nSwitch' = nSwitch + 1
    /\ last_call' = "switch_phase"
    /\ UNCHANGED <<engine, state, mix, t_in_phase, time, last_generation_time,
                   served_hist, wait_hist, served, arrivals, balance, nArrived, decideVars, streamVars>>

\* metrics() of SumoToy / NeatAdapter: avg_wait = sum(_wait_hist) / max(1, len) as
\* <<numerator, denominator>>; veh_per_sec = float(sum(_served_hist) / max(1, len))
\* and throughput = int(veh_per_sec * 3600) in float arithmetic
metrics ==
    [avg_wait |-> <<wait_hist.num, wait_hist.den * Max(1, wait_hist.len)>>,
     throughput |->
         LET veh_per_sec == FDiv(FInt(served_hist.sum), FInt(Max(1, served_hist.len)))
         IN  FTrunc(FMul(veh_per_sec, FInt(3600))),
     total_queue |-> SumAll([a \in Approaches |-> state[a].q])]

(* ------------------------ EnhancedNeatAdapter ------------------------- *)

\* self.vehicle_types, in list order
vehicle_types == <<"car", "bike", "bus", "truck", "rickshaw">>

VehicleClasses == {"car", "bike", "bus", "truck", "rickshaw"}

\* self.arrival_distributions
arrival_distributions ==
    [a \in Approaches |->
        CASE a = "North" -> <<400, 800, 900, 1000>>
          [] a = "East"  -> <<300, 700, 850, 1000>>
          [] a = "South" -> <<450, 750, 900, 1000>>
          [] OTHER       -> <<350, 650, 800, 1000>>]

\* the direction loop of _generate_prit_style_vehicles from the i-th approach on:
\* the first approach one of whose four thresholds exceeds temp, else 'North'
RECURSIVE TargetFrom(_, _)
TargetFrom(i, temp) ==
    IF i > Len(approaches) THEN "North"
    ELSE LET d == arrival_distributions[approaches[i]]
         IN  IF temp < d[1] THEN approaches[i]
             ELSE IF temp < d[2] THEN approaches[i]
             ELSE IF temp < d[3] THEN approaches[i]
             ELSE IF temp < d[4] THEN approaches[i]
             ELSE TargetFrom(i + 1, temp)

TargetApproach(temp) == TargetFrom(1, temp)

\* the approaches the direction draw can pick: temp = random.randint(0, 999)
Targets == {TargetApproach(temp) : temp \in 0..999}

NoVehicles == [c \in VehicleClasses |-> 0]

\* sum(vehicle_types.values())
MixTotal(vt) == vt["car"] + vt["bike"] + vt["bus"] + vt["truck"] + vt["rickshaw"]

\* reset(): the per-approach counters beside q, last_arrival and max_wait
ResetMix ==
    [a \in Approaches |->
        [total_arrivals |-> 0, total_served |-> 0, vehicle_types |-> NoVehicles]]

\* self.transition_timer = 4  (3s yellow + 1s all-red)
EnhTransition == 4

\* int(serving_rate), serving_rate = 2.0 * (1.0 - 0.3 * bus_ratio - 0.2 * truck_ratio)
ServingRate(vt) ==
    LET total == MixTotal(vt)
    IN  IF total > 0
        THEN (2 * (10 * total - 3 * vt["bus"] - 2 * vt["truck"])) \div (10 * total)
        ELSE 2

\* C8 mutant: the serving rate taken from the queue, whatever it holds
EnhServedCountMut(q, vt) == Max(1, ServingRate(vt))

\* served_count = min(q, max(1, int(serving_rate)))
EnhServedCount(q, vt) == Min(q, Max(1, ServingRate(vt)))

\* the loop "for vtype in self.vehicle_types" from the i-th class on: each class
\* present gives up min(count, max(1, int(served_count * count / sum))) vehicles,
\* the sum being that of the counts as already reduced
RECURSIVE ReduceMix(_, _, _)
ReduceMix(vt, served_count, i) ==
    IF i > Len(vehicle_types) THEN vt
    ELSE LET c == vehicle_types[i]
         IN  IF vt[c] > 0
             THEN LET of_type == Min(vt[c],
                                     Max(1, (served_count * vt[c]) \div MixTotal(vt)))
                  IN  ReduceMix([vt EXCEPT ![c] = vt[c] - of_type], served_count, i + 1)
             ELSE ReduceMix(vt, served_count, i + 1)

\* the body of "for approach in active_approaches": [st, mx, s]
EnhServe(st, mx) ==
    IF st.q > 0
    THEN LET s == EnhServedCount(st.q, mx.vehicle_types)
         IN  [st |-> [st EXCEPT !.q = st.q - s],
              mx |-> [mx EXCEPT !.total_served = mx.total_served + s,
                                !.vehicle_types =
                                    IF s > 0 THEN ReduceMix(mx.vehicle_types, s, 1)
                                    ELSE mx.vehicle_types],
              s |-> s]
    ELSE [st |-> st, mx |-> mx, s |-> 0]

\* "Update wait times and arrival tracking" for one approach
EnhWait(st) ==
    [st EXCEPT !.last_arrival = st.last_arrival + 1,
               !.max_wait = IF st.q > 0 THEN st.max_wait + 1 ELSE 0]

\* EnhancedNeatAdapter.__init__ (which calls reset())
EnhInit ==
    /\ engine = "EnhancedNeatAdapter"
    /\ state = ResetState
    /\ mix = ResetMix
    /\ cur_phase = 0
    /\ t_in_phase = 0
    /\ transition = 0
    /\ time = 0
    /\ last_generation_time = 0
    /\ served_hist = EmptyServedHist
    /\ wait_hist = EmptyWaitHist
    /\ served = Zeros
    /\ arrivals = Zeros
    /\ sinceSwitch = -1
    /\ balance = Zeros
    /\ nSwitch = 0
    /\ nArrived = 0
    /\ last_call = "init"
    /\ d_in = NoCall
    /\ d_out = NoResult
    /\ StreamIdle

\* EnhancedNeatAdapter.reset()
EnhReset ==
    /\ engine = "EnhancedNeatAdapter"
    /\ ResetFields
    /\ mix' = ResetMix
    /\ last_generation_time' = 0
    /\ UNCHANGED <<engine, decideVars, streamVars>>

\* what is left of the episode's budget
EnhBudget == MaxTicks - time - nSwitch

\* step(action) with no network loaded (self.neat_net is None): class is the
\* vehicle type drawn, target the approach the direction draw picked
EnhStepWith(action, class, target) ==
    LET now == time + 1
        \* generation_interval is 0.25
        generate == 4 * (now - last_generation_time) >= 1
        arr == [a \in Approaches |-> IF generate /\ a = target THEN 1 ELSE 0]
        st1 == [a \in Approaches |->
                   IF arr[a] > 0
                   THEN [state[a] EXCEPT !.q = state[a].q + 1, !.last_arrival = 0]
                   ELSE state[a]]
        mx1 == [a \in Approaches |->
                   IF arr[a] > 0
                   THEN [mix[a] EXCEPT
                            !.total_arrivals = mix[a].total_arrivals + 1,
                            !.vehicle_types[class] = mix[a].vehicle_types[class] + 1]
                   ELSE mix[a]]
        switch == action = "SWITCH" /\ transition = 0
        timer1 == IF switch THEN EnhTransition ELSE transition
        phase1 == IF switch THEN 1 - cur_phase ELSE cur_phase
        green == IF timer1 > 0 THEN {} ELSE phases[phase1]
        sv == [a \in Approaches |->
                  IF a \in green THEN EnhServe(st1[a], mx1[a])
                  ELSE [st |-> st1[a], mx |-> mx1[a], s |-> 0]]
    IN  /\ time' = now
        /\ last_generation_time' = IF generate THEN now ELSE last_generation_time
        /\ cur_phase' = phase1
        /\ IF timer1 > 0
           THEN /\ transition' = timer1 - 1
                /\ t_in_phase' = IF timer1 - 1 = 0 THEN 0 ELSE t_in_phase
           ELSE /\ transition' = timer1
                /\ t_in_phase' = t_in_phase + 1
        /\ state' = [a \in Approaches |-> EnhWait(sv[a].st)]
        /\ mix' = [a \in Approaches |-> sv[a].mx]
        /\ served' = [a \in Approaches |-> sv[a].s]
        /\ arrivals' = arr
        /\ sinceSwitch' = IF switch THEN 1
                          ELSE IF sinceSwitch < 0 THEN sinceSwitch
                          ELSE Min(sinceSwitch + 1, SinceCap)
        /\ balance' = [a \in Approaches |-> balance[a] + arr[a] - sv[a].s]
        /\ nArrived' = nArrived + SumAll(arr)
        /\ last_call' = "step"
        /\ UNCHANGED <<engine, served_hist, wait_hist, nSwitch, decideVars, streamVars>>

EnhStep ==
    /\ engine = "EnhancedNeatAdapter"
    /\ EnhBudget >= 1
    /\ \E action \in {"None", "SWITCH"}, class \in VehicleClasses, target \in Targets :
          EnhStepWith(action, class, target)

\* _switch_phase(), called on its own
EnhSwitchPhase ==
    /\ engine = "EnhancedNeatAdapter"
    /\ EnhBudget >= 1
    /\ IF transition = 0
       THEN /\ transition' = EnhTransition
            /\ cur_phase' = 1 - cur_phase
            /\ sinceSwitch' = 0
       ELSE UNCHANGED <<transition, cur_phase, sinceSwitch>>
    /\ nSwitch' = nSwitch + 1
    /\ last_call' = "switch_phase"
    /\ UNCHANGED <<engine, state, mix, t_in_phase, time, last_generation_time,
                   served_hist, wait_hist, served, arrivals, balance, nArrived, decideVars, streamVars>>

(* ------------------------- HybridController --------------------------- *)

\* HybridParams(): the defaults
DefaultParams ==
    [min_green |-> 7, max_green |-> 40, gap |-> 3, max_wait |-> 90,
     yellow |-> 3, all_red |-> 1]

\* HybridParams(min_green=2, max_green=5, gap=2, max_wait=3)
ShortParams ==
    [min_green |-> 2, max_green |-> 5, gap |-> 2, max_wait |-> 3,
     yellow |-> 3, all_red |-> 1]

\* overdue_phase is None
NoPhase == -1

\* C3 mutant: the minimum green ends one second early
MinGreenHoldMut(t, p) == t < p.min_green - 1

\* 1) Respect minimum green
MinGreenHold(t, p) == t < p.min_green

\* active_has_queue = any(approaches[a]["q"] > 0 for a in active)
ActiveHasQueue(apps, current_phase) == \E a \in phases[current_phase] : apps[a].q > 0

\* C6 mutant: all() for any(): every active approach must have a queue
GapOutHoldMut(apps, since_last_arrival, current_phase, t, p) ==
    /\ \A a \in phases[current_phase] : apps[a].q > 0
    /\ since_last_arrival < p.gap
    /\ t < p.max_green

\* 2) Gap-out: still demand on the current phase and recent arrivals
GapOutHold(apps, since_last_arrival, current_phase, t, p) ==
    /\ ActiveHasQueue(apps, current_phase)
    /\ since_last_arrival < p.gap
    /\ t < p.max_green

\* any(approaches[a]["max_wait"] > self.p.max_wait for a in group)
Overdue(apps, pid, p) == \E a \in phases[pid] : apps[a].max_wait > p.max_wait

\* overdue_phase = next((pid for pid, group in phases.items() if any(...)), None)
OverduePhase(apps, p) ==
    IF Overdue(apps, 0, p) THEN 0
    ELSE IF Overdue(apps, 1, p) THEN 1
    ELSE NoPhase

\* pressures = {pid: int(sum(approaches[a]["q"] for a in group))}
Pressures(apps) ==
    [pid \in {0, 1} |->
        IF pid = 0 THEN apps["North"].q + apps["South"].q
        ELSE apps["East"].q + apps["West"].q]

\* target = max(pressures, key=pressures.get): the first key, in the order 0, 1,
\* whose pressure is the largest
MaxPressureTarget(pressures) == IF pressures[0] >= pressures[1] THEN 0 ELSE 1

\* C21 mutant: the fairness rule without "and overdue_phase != current_phase"
decideAnyOverdueMut(apps, since_last_arrival, current_phase, t, p) ==
    IF MinGreenHold(t, p) THEN <<"HOLD", current_phase>>
    ELSE IF GapOutHold(apps, since_last_arrival, current_phase, t, p)
    THEN <<"HOLD", current_phase>>
    ELSE LET overdue_phase == OverduePhase(apps, p)
         IN  IF overdue_phase # NoPhase
             THEN <<"SWITCH", overdue_phase>>
             ELSE LET target == MaxPressureTarget(Pressures(apps))
                  IN  IF target = current_phase THEN <<"HOLD", current_phase>>
                      ELSE <<"SWITCH", target>>

\* HybridController(p).decide(state, current_phase, t_in_phase), state being
\* {"phases": phases, "approaches": apps, "approaches_since_last_arrival": since}
decide(apps, since_last_arrival, current_phase, t, p) ==
    IF MinGreenHold(t, p) THEN <<"HOLD", current_phase>>
    ELSE IF GapOutHold(apps, since_last_arrival, current_phase, t, p)
    THEN <<"HOLD", current_phase>>
    ELSE LET overdue_phase == OverduePhase(apps, p)
         IN  IF overdue_phase # NoPhase /\ overdue_phase # current_phase
             THEN <<"SWITCH", overdue_phase>>
             ELSE LET target == MaxPressureTarget(Pressures(apps))
                  IN  IF target = current_phase THEN <<"HOLD", current_phase>>
                      ELSE <<"SWITCH", target>>

\* state.get(key, default) on a mapping
DictGet(dict, key, default) ==
    IF key \in DOMAIN dict THEN dict[key] ELSE default

\* state.pop(key): the mapping without the key
DictPop(dict, key) == [k \in DOMAIN dict \ {key} |-> dict[k]]

\* C19 mutant: since_last_arrival is taken with state.pop(...) for state.get(...),
\* which removes the key from the caller's mapping
HybridController_decideMut(self, mapping, current_phase, t) ==
    [ret |-> decide(mapping.approaches,
                    DictGet(mapping, "approaches_since_last_arrival", 0),
                    current_phase, t, self.p),
     self |-> self,
     state |-> DictPop(mapping, "approaches_since_last_arrival")]

\* the call self.decide(state, current_phase, t_in_phase) on the objects it is
\* given, mapping being its state and t its t_in_phase: what it returns, and the
\* controller and the state mapping as the call leaves them. The body reads state["phases"], state["approaches"],
\* state.get("approaches_since_last_arrival", 0.0) and self.p, and assigns to
\* locals only.
HybridController_decide(self, mapping, current_phase, t) ==
    [ret |-> decide(mapping.approaches,
                    DictGet(mapping, "approaches_since_last_arrival", 0),
                    current_phase, t, self.p),
     self |-> self,
     state |-> mapping]

\* _since_last_arrival_for_phase(state, cur_phase): min last_arrival of the active approaches
since_last_arrival_for_phase(apps, cur) ==
    LET active == phases[cur]
    IN  CHOOSE v \in {apps[a].last_arrival : a \in active} :
            \A a \in active : v <= apps[a].last_arrival

\* the parameter sets a controller is built with
ParamChoices == {DefaultParams, ShortParams}

\* t_in_phase arguments: each side of min_green and of max_green
Times(p) == {0, p.min_green - 1, p.min_green, p.max_green - 1, p.max_green, p.max_green + 1}

\* state mappings: every queue up to MaxQueue, last_arrival on each side of gap
\* and max_wait on each side of params.max_wait
ApproachStates(p) ==
    [Approaches -> [q : 0..MaxQueue,
                    last_arrival : {p.gap - 1, p.gap},
                    max_wait : {p.max_wait, p.max_wait + 1}]]

\* dec_state of run_episode: the mapping handed to decide,
\* approaches_since_last_arrival being _since_last_arrival_for_phase(state, cur_phase)
dec_state(apps, cur) ==
    [phases |-> phases, approaches |-> apps,
     approaches_since_last_arrival |-> since_last_arrival_for_phase(apps, cur)]

\* an idle engine (the controller is called on a state mapping)
NoEngine == "none"

DecideInit ==
    /\ ToyInitFields(NoEngine)
    /\ \E p \in ParamChoices :
          \E apps \in ApproachStates(p), cur \in {0, 1}, t \in Times(p) :
             d_in = [op |-> "decide", params |-> p,
                     state |-> dec_state(apps, cur),
                     current_phase |-> cur, t_in_phase |-> t, calls |-> 0]
    /\ d_out = NoResult
    /\ StreamIdle

\* controller.decide(dec_state, cur_phase, t_in_phase) on the controller
\* HybridController(params) and the mapping of d_in: the answer is returned and
\* the controller and the mapping are left as the call leaves them
DecideCall ==
    LET call == HybridController_decide([p |-> d_in.params], d_in.state,
                                        d_in.current_phase, d_in.t_in_phase)
    IN  /\ d_in.op = "decide"
        /\ d_out' = call.ret
        /\ d_in' = [d_in EXCEPT !.params = call.self.p,
                                !.state = call.state,
                                !.calls = @ + 1]
        /\ UNCHANGED <<engineVars, streamVars>>

\* the first call
Decide ==
    /\ d_out = NoResult
    /\ DecideCall

\* the call made again on the same controller and the same mapping
DecideAgain ==
    /\ d_out # NoResult
    /\ d_in.op = "decide"
    /\ d_in.calls < MaxDecideCalls
    /\ DecideCall

NextDecide == Decide \/ DecideAgain

SpecDecide == DecideInit /\ [][NextDecide]_vars

(* ------------------ adaptive_signal: the phase planner ---------------- *)

\* The planner's floats are held as exact fractions [num, den], den > 0, in lowest
\* terms; where a fraction is printed on a half the float decides (Format0).
Abs(x) == IF x < 0 THEN -x ELSE x

Rat(n, d) ==
    LET g == GCD(Abs(n), d)
    IN  [num |-> n \div g, den |-> d \div g]

RInt(n) == [num |-> n, den |-> 1]

RAdd(a, b) == Rat(a.num * b.den + b.num * a.den, a.den * b.den)

RSub(a, b) == Rat(a.num * b.den - b.num * a.den, a.den * b.den)

RMul(a, b) == Rat(a.num * b.num, a.den * b.den)

\* a / b for b # 0
RDiv(a, b) ==
    IF b.num > 0 THEN Rat(a.num * b.den, a.den * b.num)
    ELSE Rat(-(a.num * b.den), -(a.den * b.num))

RLess(a, b) == a.num * b.den < b.num * a.den

RMax(a, b) == IF RLess(a, b) THEN b ELSE a

RMin(a, b) == IF RLess(b, a) THEN b ELSE a

\* int(x) for x >= 0
RTrunc(a) == a.num \div a.den

\* the integer nearest to a fraction a >= 0, a half going to the even one
RoundHalfEven(a) ==
    LET f == a.num \div a.den
        twice == 2 * (a.num - f * a.den)
    IN  IF twice < a.den THEN f
        ELSE IF twice > a.den THEN f + 1
        ELSE IF f % 2 = 0 THEN f ELSE f + 1

\* APPROACH_GROUPS
APPROACH_GROUPS == [NS |-> <<"North", "South">>, EW |-> <<"East", "West">>]

\* ControllerConfig(): the defaults
ControllerConfig ==
    [cycle_length |-> RInt(80), min_green |-> RInt(12), max_green |-> RInt(55),
     baseline_green |-> RInt(40), responsiveness |-> Rat(6, 10)]

\* config=None
NoConfig == [none |-> TRUE]

\* config = config or ControllerConfig()
ConfigOrDefault(config) == IF config = NoConfig THEN ControllerConfig ELSE config

\* _clamp(value, minimum, maximum) = max(minimum, min(maximum, value))
clamp(value, minimum, maximum) == RMax(minimum, RMin(maximum, value))

\* d.get(key, 0.0)
Get(d, key) == IF key \in DOMAIN d THEN d[key] ELSE 0

\* C13 mutant: queued vehicles at full weight
QueueWeightMut == RInt(1)

\* the weight of a queued vehicle: 0.5 * queues.get(axis, 0.0)
QueueWeight == Rat(1, 2)

\* sum(counts.get(axis, 0.0) for axis in group) + sum(0.5 * queues.get(axis, 0.0) ...)
Demand(counts, queues, group) ==
    RAdd(RInt(Get(counts, group[1]) + Get(counts, group[2])),
         RAdd(RMul(QueueWeight, RInt(Get(queues, group[1]))),
              RMul(QueueWeight, RInt(Get(queues, group[2])))))

\* _estimate_delay(demand, green, cycle_length)
estimate_delay(demand, green, cycle_length) ==
    IF demand.num = 0 THEN RInt(0)
    ELSE LET green_ratio == RDiv(green, cycle_length)
         IN  RDiv(RMul(RMul(demand, RMax(RInt(0), RSub(RInt(1), green_ratio))),
                       cycle_length),
                  RInt(2))

\* reason="No demand detected; keeping baseline split."
NoDemandReason == [text |-> "No demand detected; keeping baseline split."]

\* format(x, ".0f") for the float x the code holds where the model holds the
\* fraction a: the two differ by less than 2^-40, so the nearest integer is the
\* same for both unless a is an integer and a half, where x may lie on either
\* side of the half or on it
Format0(a, x) == IF a.den = 2 THEN FFormat0(x) ELSE RoundHalfEven(a)

\* reason = f"NS demand {int(ns_demand)} vs EW {int(ew_demand)} -> {ns_green:.0f}s/{ew_green:.0f}s split",
\* floats being the greens as floats
SplitReason(ns_demand, ew_demand, ns_green, ew_green, floats) ==
    [ns_demand |-> RTrunc(ns_demand), ew_demand |-> RTrunc(ew_demand),
     ns |-> Format0(ns_green, floats.ns_green),
     ew |-> Format0(ew_green, floats.ew_green)]

\* the float a fraction stands for: the quotient of its two ints, correctly rounded
\* (0.6 for 3/5, and every int and every half exactly)
Float(a) == FDiv(FInt(a.num), FInt(a.den))

\* lines 59-63 on floats: ew_green = cycle_length - ns_green, then the deficit shift
FloatShift(ns0, ew0, min_green) ==
    IF FLess(ew0, min_green)
    THEN Only({[ns_green |-> FMax(min_green, FSub(ns0, adjustment)),
                ew_green |-> FAdd(ew0, adjustment)] :
                  adjustment \in {FSub(min_green, ew0)}})
    ELSE [ns_green |-> ns0, ew_green |-> ew0]

\* ns_green and ew_green as the floats the code computes, the operations and
\* their order being those of the source
FloatSplit(ns_demand, ew_demand, config) ==
    Only({Only({FloatShift(ns0, FSub(cycle_length, ns0), min_green) :
                   ns0 \in {FMax(min_green,
                                 FMin(Float(config.max_green),
                                      FMul(cycle_length,
                                           FAdd(FMul(responsiveness,
                                                     FDiv(ns, FAdd(ns, ew))),
                                                FMul(FSub(FInt(1), responsiveness),
                                                     Float(Rat(1, 2)))))))}}) :
             cycle_length \in {Float(config.cycle_length)},
             min_green \in {Float(config.min_green)},
             responsiveness \in {Float(config.responsiveness)},
             ns \in {Float(ns_demand)},
             ew \in {Float(ew_demand)}})

\* C12 mutant: an even split of the cycle when nothing is detected
ZeroDemandPlanMut(config) ==
    [ns_green |-> RDiv(config.cycle_length, RInt(2)),
     ew_green |-> RDiv(config.cycle_length, RInt(2)),
     reason |-> NoDemandReason,
     predicted_delay_reduction |-> RInt(0)]

\* the PhasePlan returned "if total_demand == 0"
ZeroDemandPlan(config) ==
    [ns_green |-> config.baseline_green,
     ew_green |-> config.baseline_green,
     reason |-> NoDemandReason,
     predicted_delay_reduction |-> RInt(0)]

\* C14 mutant: the deficit taken off ns_green without the floor
ShiftedNsMut(ns_green, adjustment, config) == RSub(ns_green, adjustment)

\* ns_green = max(config.min_green, ns_green - adjustment)
ShiftedNs(ns_green, adjustment, config) ==
    RMax(config.min_green, RSub(ns_green, adjustment))

\* compute_phase_plan(counts, queues, config)
compute_phase_plan(counts, queues, config_arg) ==
    LET config == ConfigOrDefault(config_arg)
        ns_demand == Demand(counts, queues, APPROACH_GROUPS.NS)
        ew_demand == Demand(counts, queues, APPROACH_GROUPS.EW)
        total_demand == RAdd(ns_demand, ew_demand)
    IN  IF total_demand.num = 0 THEN ZeroDemandPlan(config)
        ELSE
        LET ns_ratio == RDiv(ns_demand, total_demand)
            ns0 == clamp(RMul(config.cycle_length,
                              RAdd(RMul(config.responsiveness, ns_ratio),
                                   RMul(RSub(RInt(1), config.responsiveness), Rat(1, 2)))),
                         config.min_green, config.max_green)
            ew0 == RSub(config.cycle_length, ns0)
            short == RLess(ew0, config.min_green)
            adjustment == RSub(config.min_green, ew0)
            ew_green == IF short THEN RAdd(ew0, adjustment) ELSE ew0
            ns_green == IF short THEN ShiftedNs(ns0, adjustment, config) ELSE ns0
            baseline_delay ==
                RAdd(estimate_delay(ns_demand, config.baseline_green, config.cycle_length),
                     estimate_delay(ew_demand, config.baseline_green, config.cycle_length))
            adaptive_delay ==
                RAdd(estimate_delay(ns_demand, ns_green, config.cycle_length),
                     estimate_delay(ew_demand, ew_green, config.cycle_length))
            reduction_pct ==
                IF baseline_delay.num > 0
                THEN RMax(RInt(0),
                          RMul(RDiv(RSub(baseline_delay, adaptive_delay), baseline_delay),
                               RInt(100)))
                ELSE RInt(0)
        IN  [ns_green |-> ns_green,
             ew_green |-> ew_green,
             reason |-> SplitReason(ns_demand, ew_demand, ns_green, ew_green,
                                    FloatSplit(ns_demand, ew_demand, config)),
             predicted_delay_reduction |-> reduction_pct]

\* ControllerConfig(cycle_length=float(cycle_length)), as _scenario_controls builds it
DemoConfig(cycle_length) == [ControllerConfig EXCEPT !.cycle_length = RInt(cycle_length)]

\* the ends and the default of the demo's slider "Cycle length (seconds)", 60..120
SliderCycles == {60, 80, 120}

\* ControllerConfig(cycle_length=20.0): a cycle shorter than two minimum greens
ShortCycleConfig == [ControllerConfig EXCEPT !.cycle_length = RInt(20)]

\* ControllerConfig(cycle_length=100.0, min_green=30.0, max_green=80.0,
\*                  baseline_green=50.0, responsiveness=1.0)
WideConfig ==
    [cycle_length |-> RInt(100), min_green |-> RInt(30), max_green |-> RInt(80),
     baseline_green |-> RInt(50), responsiveness |-> RInt(1)]

\* the config arguments of the calls
ConfigChoices ==
    {NoConfig, ShortCycleConfig, WideConfig} \cup {DemoConfig(c) : c \in SliderCycles}

\* the key sets of the counts and queues mappings
DictShapes == {Approaches, {"North", "South"}, {"East"}, {}}

CountValues == {5 * k : k \in 0..MaxCount}

CountDicts == UNION {[S -> CountValues] : S \in DictShapes}

QueueDicts == UNION {[S -> 0..MaxPlanQueue] : S \in DictShapes}

PlanInit ==
    /\ ToyInitFields(NoEngine)
    /\ StreamIdle
    /\ \E counts \in CountDicts, queues \in QueueDicts, config \in ConfigChoices :
          d_in = [op |-> "compute_phase_plan", counts |-> counts, queues |-> queues,
                  config |-> config]
    /\ d_out = NoResult

\* plan = compute_phase_plan(counts, queues, config)
ComputePhasePlan ==
    /\ d_in.op = "compute_phase_plan"
    /\ d_out = NoResult
    /\ d_out' = compute_phase_plan(d_in.counts, d_in.queues, d_in.config)
    /\ UNCHANGED <<engineVars, d_in, streamVars>>

NextPlan == ComputePhasePlan

SpecPlan == PlanInit /\ [][NextPlan]_vars

(* --------------- adaptive_signal: evaluate_sequence ------------------- *)

\* the cycle ids of a frame's rows
CycleIds(rows) == {rows[i].cycle : i \in DOMAIN rows}

\* C16 mutant: the groups in the order their cycle first appears (sort=False)
RECURSIVE GroupKeysMut(_)
GroupKeysMut(rows) ==
    IF rows = <<>> THEN <<>>
    ELSE LET c == rows[1].cycle
         IN  <<c>> \o GroupKeysMut(SelectSeq(Tail(rows), LAMBDA r : r.cycle # c))

\* df.groupby("cycle"): the group keys in ascending order
RECURSIVE GroupKeys(_)
GroupKeys(rows) ==
    IF rows = <<>> THEN <<>>
    ELSE LET ids == CycleIds(rows)
             c == CHOOSE x \in ids : \A y \in ids : x <= y
         IN  <<c>> \o GroupKeys(SelectSeq(rows, LAMBDA r : r.cycle # c))

\* the rows of one group, in frame order
Group(rows, cycle) == SelectSeq(rows, LAMBDA r : r.cycle = cycle)

\* group.set_index("approach")[column].to_dict(): the value of the last row of
\* each approach
ColumnDict(group, column) ==
    [a \in {group[i].approach : i \in DOMAIN group} |->
        LET last == CHOOSE i \in DOMAIN group :
                        /\ group[i].approach = a
                        /\ \A j \in DOMAIN group : group[j].approach = a => j <= i
        IN  group[last][column]]

\* the dict appended to results for one group
ResultRow(cycle, plan) ==
    [cycle |-> cycle,
     ns_green |-> plan.ns_green,
     ew_green |-> plan.ew_green,
     reason |-> plan.reason,
     predicted_delay_reduction_pct |-> plan.predicted_delay_reduction]

\* evaluate_sequence(df, config): the rows of the frame returned
evaluate_sequence(rows, config) ==
    LET keys == GroupKeys(rows)
    IN  [k \in 1..Len(keys) |->
            LET group == Group(rows, keys[k])
            IN  ResultRow(keys[k],
                          compute_phase_plan(ColumnDict(group, "vehicles"),
                                             ColumnDict(group, "queue"),
                                             config))]

\* cycle ids of the rows
RowCycles == 0..2

RowApproaches == {"North", "East"}

\* the (vehicles, queue) readings of a row
RowReadings == {<<5, 0>>, <<0, 1>>}

RowChoices ==
    {[cycle |-> c, approach |-> a, vehicles |-> r[1], queue |-> r[2]] :
        c \in RowCycles, a \in RowApproaches, r \in RowReadings}

\* frames of up to MaxRows rows, in any row order
Frames == UNION {[1..n -> RowChoices] : n \in 0..MaxRows}

SeqInit ==
    /\ ToyInitFields(NoEngine)
    /\ StreamIdle
    /\ \E rows \in Frames, config \in {NoConfig, DemoConfig(120)} :
          d_in = [op |-> "evaluate_sequence", rows |-> rows, config |-> config]
    /\ d_out = NoResult

\* plans_df = evaluate_sequence(df, config)
EvaluateSequence ==
    /\ d_in.op = "evaluate_sequence"
    /\ d_out = NoResult
    /\ d_out' = [rows |-> evaluate_sequence(d_in.rows, d_in.config)]
    /\ UNCHANGED <<engineVars, d_in, streamVars>>

NextSeq == EvaluateSequence

SpecSeq == SeqInit /\ [][NextSeq]_vars

(* ------------------ adaptive_signal: scenario presets ----------------- *)

\* the keys of SCENARIO_PRESETS
ScenarioNames == {"Morning peak", "Evening balanced", "Incident eastbound"}

\* SCENARIO_PRESETS[name]
SCENARIO_PRESETS ==
    [name \in ScenarioNames |->
        CASE name = "Morning peak" ->
                [config |-> [base_flow |-> [North |-> 24, South |-> 28, East |-> 12, West |-> 9],
                             variability |-> Rat(25, 100), seed |-> 42],
                 recording |-> "morning_peak.csv"]
          [] name = "Evening balanced" ->
                [config |-> [base_flow |-> [North |-> 12, South |-> 14, East |-> 16, West |-> 17],
                             variability |-> Rat(18, 100), seed |-> 21],
                 recording |-> "evening_clear.csv"]
          [] OTHER ->
                [config |-> [base_flow |-> [North |-> 14, South |-> 13, East |-> 34, West |-> 9],
                             variability |-> Rat(30, 100), seed |-> 7],
                 recording |-> "incident_east.csv"]]

\* SensorConfig(): the defaults (seed None as -1)
SensorConfig ==
    [base_flow |-> [North |-> 12, South |-> 14, East |-> 10, West |-> 9],
     variability |-> Rat(35, 100), seed |-> -1]

\* raise kind(message)
Raised(kind, message) == [raised |-> kind, message |-> message]

\* C17 mutant: an unknown name answered with the default SensorConfig
scenario_configMut(name) ==
    IF name \notin ScenarioNames THEN [config |-> SensorConfig]
    ELSE [config |-> SCENARIO_PRESETS[name].config]

\* scenario_config(name)
scenario_config(name) ==
    IF name \notin ScenarioNames THEN Raised("KeyError", "Unknown scenario")
    ELSE [config |-> SCENARIO_PRESETS[name].config]

\* load_recorded_counts(name), files being the names present in DATA_DIR;
\* pd.read_csv(path) is the content of that file
load_recorded_counts(name, files) ==
    IF name \notin ScenarioNames THEN Raised("KeyError", "Unknown scenario")
    ELSE LET filename == SCENARIO_PRESETS[name].recording
         IN  IF filename = "" THEN Raised("FileNotFoundError", "No recording configured")
             ELSE IF filename \notin files
             THEN Raised("FileNotFoundError", "Recorded data missing")
             ELSE [rows |-> [read_csv |-> filename]]

\* the recordings the presets name
Recordings == {SCENARIO_PRESETS[name].recording : name \in ScenarioNames}

\* the name arguments: the presets, a name that is none of them, the empty string
NameChoices == ScenarioNames \cup {"Rush hour", ""}

ScenarioInit ==
    /\ ToyInitFields(NoEngine)
    /\ StreamIdle
    /\ \E op \in {"scenario_config", "load_recorded_counts"},
          name \in NameChoices, files \in SUBSET Recordings :
          d_in = [op |-> op, name |-> name, files |-> files]
    /\ d_out = NoResult

\* base_cfg = scenario_config(scenario)
ScenarioConfig ==
    /\ d_in.op = "scenario_config"
    /\ d_out = NoResult
    /\ d_out' = scenario_config(d_in.name)
    /\ UNCHANGED <<engineVars, d_in, streamVars>>

\* load_recorded_counts(scenario)
LoadRecordedCounts ==
    /\ d_in.op = "load_recorded_counts"
    /\ d_out = NoResult
    /\ d_out' = load_recorded_counts(d_in.name, d_in.files)
    /\ UNCHANGED <<engineVars, d_in, streamVars>>

NextScenario == ScenarioConfig \/ LoadRecordedCounts

SpecScenario == ScenarioInit /\ [][NextScenario]_vars

(* ----------------- engine instances and np.random -------------------- *)

\* the engine objects of one process
InstanceIds == {1, 2}

\* the seeds the constructors default to: SumoToy(seed=42), NeatAdapter(seed=123)
Seeds == {42, 123}

\* draws __init__ makes after seeding: SumoToy draws self.lam[a] from
\* np.random.normal for each of the four approaches, NeatAdapter draws nothing
InitDraws(cls) == IF cls = "SumoToy" THEN 4 ELSE 0

\* draws of one step(): SumoToy one np.random.poisson per approach; NeatAdapter
\* one np.random.rand and one np.random.poisson per approach
StepDraws(cls) == IF cls = "SumoToy" THEN 4 ELSE 8

\* np.random.seed(seed) in __init__, then the constructor's draws
SeedStream(cls, seed) == [seed |-> seed, pos |-> InitDraws(cls)]

\* the draws of step() advance the generator they are taken from
AdvanceStream(stream, cls) == [stream EXCEPT !.pos = stream.pos + StepDraws(cls)]

StreamInit ==
    /\ ToyInitFields(NoEngine)
    /\ d_in = NoCall
    /\ d_out = NoResult
    /\ StreamIdle

\* i = SumoToy(seed=seed) or i = NeatAdapter(seed=seed)
Construct(i, cls, seed) ==
    /\ i \notin DOMAIN inst
    /\ np_random' = SeedStream(cls, seed)
    /\ inst' = [j \in DOMAIN inst \cup {i} |->
                   IF j = i
                   THEN [cls |-> cls, seed |-> seed, draws |-> InitDraws(cls), steps |-> 0]
                   ELSE inst[j]]
    /\ UNCHANGED <<engineVars, decideVars, app_drew>>

\* i.step(): the arrivals are the next draws of np.random
InstStep(i) ==
    /\ i \in DOMAIN inst
    /\ inst[i].steps < MaxStreamSteps
    /\ np_random' = AdvanceStream(np_random, inst[i].cls)
    /\ inst' = [inst EXCEPT ![i].draws = @ + StepDraws(inst[i].cls),
                            ![i].steps = @ + 1]
    /\ UNCHANGED <<engineVars, decideVars, app_drew>>

\* the generator after n more values were drawn from it
Drawn(stream, n) == [stream EXCEPT !.pos = @ + n]

\* for direction in ["N", "E", "S", "W"] of TrafficSimulator.generate_arrivals
Directions == {"N", "E", "S", "W"}

\* TrafficSimulator().generate_arrivals(time_of_day), also as the first statement
\* of step_simulation(mode, params, time_of_day): one np.random.poisson per
\* direction from the generator the engines seed and draw from, whatever the
\* hour; the simulator is no engine instance, so every instance there is has
\* been drawn across
generate_arrivals ==
    /\ np_random.pos < MaxStreamPos
    /\ np_random' = Drawn(np_random, Cardinality(Directions))
    /\ app_drew' = DOMAIN inst
    /\ UNCHANGED <<engineVars, decideVars, inst>>

\* the columns run_professional_tab fills when the frame has no coordinates
MapColumns == {"x", "y"}

\* run_professional_tab of app_enhanced.py on a non-empty frame of rows rows
\* without coordinates: map_df['x'] and map_df['y'] are each
\* np.random.uniform(low, high, len(map_df))
run_professional_tab(rows) ==
    /\ np_random.pos < MaxStreamPos
    /\ np_random' = Drawn(np_random, Cardinality(MapColumns) * rows)
    /\ app_drew' = DOMAIN inst
    /\ UNCHANGED <<engineVars, decideVars, inst>>

\* recent_decisions = prit_bridge.real_time_data[-10:], taken when there are more
\* than 10 data points
recent_decisions == 1..10

\* main of app_prit_enhanced.py (prit_main in app_enhanced.py): one
\* np.random.uniform(0.3, 1.0) for each of the recent decisions
prit_main ==
    /\ np_random.pos < MaxStreamPos
    /\ np_random' = Drawn(np_random, Cardinality(recent_decisions))
    /\ app_drew' = DOMAIN inst
    /\ UNCHANGED <<engineVars, decideVars, inst>>

NextStream ==
    \/ \E i \in InstanceIds, cls \in ToyEngines, seed \in Seeds : Construct(i, cls, seed)
    \/ \E i \in InstanceIds : InstStep(i)
    \/ generate_arrivals
    \/ \E rows \in 1..MaxMapRows : run_professional_tab(rows)
    \/ prit_main

SpecStream == StreamInit /\ [][NextStream]_vars

(* --------------------------- specification ---------------------------- *)

Init == (\E e \in ToyEngines : ToyInit(e)) \/ EnhInit

Next == Reset \/ Step \/ SwitchPhase \/ EnhReset \/ EnhStep \/ EnhSwitchPhase

Spec == Init /\ [][Next]_vars

(* ----------------------------- metrics() ------------------------------ *)

\* the engine calls made before metrics() is called
BeforeMetrics ==
    /\ d_in = NoCall
    /\ Next
    /\ time' + nSwitch' + nArrived' <= MaxMetricsEpisode

\* SumoToy.metrics() / NeatAdapter.metrics(): one frame, no call inside
ToyMetrics ==
    /\ engine \in ToyEngines
    /\ d_in = NoCall
    /\ d_in' = [op |-> "metrics", stack |-> <<>>]
    /\ d_out' = [returned |-> metrics]
    /\ UNCHANGED <<engineVars, streamVars>>

\* e.metrics() on an EnhancedNeatAdapter: the first frame
EnhMetricsCall ==
    /\ engine = "EnhancedNeatAdapter"
    /\ d_in = NoCall
    /\ d_in' = [op |-> "metrics", stack |-> <<"metrics">>]
    /\ UNCHANGED <<engineVars, d_out, streamVars>>

\* the call the frame on top of the stack makes: metrics() builds its dict with
\* "neat_fitness": self._calculate_neat_fitness(), and _calculate_neat_fitness()
\* starts with metrics = self.metrics()
Callee(frame) == IF frame = "metrics" THEN "_calculate_neat_fitness" ELSE "metrics"

\* the frame on top makes its call
EnhMetricsPush ==
    /\ d_in.op = "metrics"
    /\ d_out = NoResult
    /\ Len(d_in.stack) > 0
    /\ Len(d_in.stack) < MaxStack
    /\ d_in' = [d_in EXCEPT !.stack = Append(@, Callee(d_in.stack[Len(d_in.stack)]))]
    /\ UNCHANGED <<engineVars, d_out, streamVars>>

\* the call that would exceed the recursion limit raises RecursionError, which no
\* frame catches
EnhMetricsOverflow ==
    /\ d_in.op = "metrics"
    /\ d_out = NoResult
    /\ Len(d_in.stack) = MaxStack
    /\ d_in' = [d_in EXCEPT !.stack = <<>>]
    /\ d_out' = Raised("RecursionError", "maximum recursion depth exceeded")
    /\ UNCHANGED <<engineVars, streamVars>>

NextMetrics ==
    BeforeMetrics \/ ToyMetrics \/ EnhMetricsCall \/ EnhMetricsPush \/ EnhMetricsOverflow

SpecMetrics == Init /\ [][NextMetrics]_vars

(* ---------------------------- run_episode ----------------------------- *)

\* the green time of the fixed-time baseline: if t_in_phase >= 40
FixedGreen == 40

\* HybridParams(min_green=1, max_green=1, gap=1, max_wait=1)
TinyParams ==
    [min_green |-> 1, max_green |-> 1, gap |-> 1, max_wait |-> 1,
     yellow |-> 3, all_red |-> 1]

\* the calls run_episode(SumoToy(), controller_mode, params, sim_duration_sec)
Episodes ==
    {[op |-> "run_episode", controller_mode |-> "Fixed 40s",
      params |-> DefaultParams, sim_duration_sec |-> MaxFixedTicks],
     [op |-> "run_episode", controller_mode |-> "Adaptive",
      params |-> TinyParams, sim_duration_sec |-> MaxAdaptiveTicks],
     [op |-> "run_episode", controller_mode |-> "Adaptive",
      params |-> ShortParams, sim_duration_sec |-> MaxAdaptiveTicks],
     [op |-> "run_episode", controller_mode |-> "Adaptive",
      params |-> DefaultParams, sim_duration_sec |-> MaxAdaptiveTicks],
     [op |-> "run_episode", controller_mode |-> "Adaptive",
      params |-> DefaultParams, sim_duration_sec |-> 0],
     [op |-> "run_episode", controller_mode |-> "Fixed 40s",
      params |-> DefaultParams, sim_duration_sec |-> 0]}

\* the Poisson draws of one tick
ArrivalPatterns ==
    {Zeros,
     [a \in Approaches |-> IF a = "North" THEN 2 ELSE 0],
     [a \in Approaches |-> IF a = "North" THEN 3 ELSE IF a = "East" THEN 1 ELSE 0]}

EpisodeInit ==
    /\ ToyInitFields("SumoToy")
    /\ d_in \in Episodes
    /\ d_out = NoResult
    /\ StreamIdle

\* state = engine.reset()
EpisodeReset ==
    /\ last_call = "init"
    /\ Reset

\* the top of the loop body is reached: the previous call was reset() or step()
\* and iterations remain (the engine's time counts the step() calls since reset())
AtLoopTop ==
    /\ last_call \in {"reset", "step"}
    /\ time < d_in.sim_duration_sec

\* whether the loop body calls engine.switch_phase(): in 'Fixed 40s' mode
\* t_in_phase >= 40, t_in_phase being state["t_in_phase"] of the last snapshot;
\* otherwise decide() on the last snapshot answers SWITCH with target != cur_phase
WantsSwitch ==
    IF d_in.controller_mode = "Fixed 40s" THEN t_in_phase >= FixedGreen
    ELSE LET last_gap == since_last_arrival_for_phase(state, cur_phase)
             decision == decide(state, last_gap, cur_phase, t_in_phase, d_in.params)
         IN  decision[1] = "SWITCH" /\ decision[2] # cur_phase

\* getattr(engine, "switch_phase")()
EpisodeSwitch ==
    /\ AtLoopTop
    /\ WantsSwitch
    /\ transition' = TransitionLength
    /\ cur_phase' = 1 - cur_phase
    /\ sinceSwitch' = 0
    /\ nSwitch' = nSwitch + 1
    /\ last_call' = "switch_phase"
    /\ UNCHANGED <<engine, state, mix, t_in_phase, time, last_generation_time,
                   served_hist, wait_hist, served, arrivals, balance, nArrived,
                   decideVars, streamVars>>

\* state = engine.step(), after switch_phase() or when the loop body calls no switch
EpisodeStep ==
    /\ \/ last_call = "switch_phase"
       \/ AtLoopTop /\ ~WantsSwitch
    /\ \E arr \in ArrivalPatterns :
          /\ d_in.controller_mode = "Fixed 40s"
                 => nArrived + SumAll(arr) <= MaxFixedArrivals
          /\ SumAll([a \in Approaches |-> state[a].q]) + SumAll(arr) <= MaxEpisodeQueue
          /\ StepWith(arr)

\* kpis = engine.metrics() once the loop has run sim_duration_sec times (at once
\* after reset() when sim_duration_sec is 0)
EpisodeReturn ==
    /\ last_call \in {"reset", "step"}
    /\ time = d_in.sim_duration_sec
    /\ d_out = NoResult
    /\ d_out' = [kpis |-> metrics]
    /\ UNCHANGED <<engineVars, d_in, streamVars>>

NextEpisode == EpisodeReset \/ EpisodeSwitch \/ EpisodeStep \/ EpisodeReturn

SpecEpisode == EpisodeInit /\ [][NextEpisode]_vars

(* ------------------------------ claims -------------------------------- *)

\* the other phase
Other(pid) == 1 - pid

\* a step() call has just returned
Stepped == time' = time + 1

\* C1 (transition lock, SumoToy and NeatAdapter): after switch_phase() followed
\* only by step() calls, each of the next yellow + all_red = 4 steps serves no
\* approach, the fourth of them sets t_in_phase to 0, and the fifth serves
\* every approach of the new cur_phase that has a vehicle waiting.
C1_TransitionLock ==
    [][(engine \in ToyEngines /\ Stepped /\ sinceSwitch >= 0) =>
          /\ sinceSwitch < 4 => served' = Zeros
          /\ sinceSwitch = 3 => t_in_phase' = 0
          /\ sinceSwitch = 4 =>
                \A a \in phases[cur_phase] :
                   state[a].q + arrivals'[a] > 0 => served'[a] > 0]_vars

\* C1 witness: the fifth step after a switch to East/West has served East or West
C1_Witness ==
    /\ engine \in ToyEngines
    /\ sinceSwitch = 5
    /\ cur_phase = 1
    /\ served["East"] + served["West"] > 0
    /\ served["North"] + served["South"] = 0

\* C2 (as claimed): a switch requested while a transition is in progress
\* changes neither cur_phase nor the remaining countdown: switch_phase() of
\* SumoToy and NeatAdapter and _switch_phase() of EnhancedNeatAdapter leave both
\* as they are, and step("SWITCH") leaves cur_phase and counts down by one as
\* step() does.
C2_SwitchInTransitionNoOp ==
    [][transition > 0 =>
          /\ (SwitchPhase \/ EnhSwitchPhase) =>
                (cur_phase' = cur_phase /\ transition' = transition)
          /\ (\E class \in VehicleClasses, target \in Targets :
                 EnhStepWith("SWITCH", class, target)) =>
                (cur_phase' = cur_phase /\ transition' = transition - 1)]_vars

\* C3 (min-green law): with t_in_phase < min_green decide returns
\* ("HOLD", current_phase), whatever the queues and waits are.
C3_MinGreen ==
    (d_out # NoResult /\ d_in.t_in_phase < d_in.params.min_green) =>
        d_out = <<"HOLD", d_in.current_phase>>

\* the call's arguments, read off d_in
InQ(a) == d_in.state.approaches[a].q

InWait(a) == d_in.state.approaches[a].max_wait

InLast(a) == d_in.state.approaches[a].last_arrival

InPressure(pid) ==
    IF pid = 0 THEN InQ("North") + InQ("South") ELSE InQ("East") + InQ("West")

InOverdue(pid) == \E a \in phases[pid] : InWait(a) > d_in.params.max_wait

\* the min-green rule applies to the call
InMinGreen == d_in.t_in_phase < d_in.params.min_green

\* the gap-out rule applies to the call: demand on the current phase, an arrival
\* on it less than gap seconds ago, and t_in_phase < max_green
InGapOut ==
    /\ \E a \in phases[d_in.current_phase] : InQ(a) > 0
    /\ \E a \in phases[d_in.current_phase] : InLast(a) < d_in.params.gap
    /\ d_in.t_in_phase < d_in.params.max_green

\* C3 witness: a call before min_green whose other phase is overdue and has the
\* larger queue
C3_Witness ==
    /\ d_out # NoResult
    /\ InMinGreen
    /\ InOverdue(Other(d_in.current_phase))
    /\ InPressure(Other(d_in.current_phase)) > InPressure(d_in.current_phase)

\* C4 (as claimed): when the min-green and gap-out rules do not apply and some
\* approach of the other phase has max_wait > params.max_wait, decide returns
\* ("SWITCH", other phase), for current_phase 0 and 1 alike, whatever the
\* queues and whether or not the current phase is overdue too.
C4_FairnessPrecedence ==
    (d_out # NoResult /\ ~InMinGreen /\ ~InGapOut
        /\ InOverdue(Other(d_in.current_phase))) =>
        d_out = <<"SWITCH", Other(d_in.current_phase)>>

\* C5 (as claimed): when the min-green, gap-out and fairness rules do not
\* apply, decide returns SWITCH to the other phase exactly when the other
\* phase's total queue is strictly greater; on equal totals it returns
\* ("HOLD", current_phase), for current_phase 0 and 1 alike.
C5_MaxPressureTieKeeps ==
    (d_out # NoResult /\ ~InMinGreen /\ ~InGapOut
        /\ ~InOverdue(Other(d_in.current_phase))) =>
        d_out = IF InPressure(Other(d_in.current_phase)) > InPressure(d_in.current_phase)
                THEN <<"SWITCH", Other(d_in.current_phase)>>
                ELSE <<"HOLD", d_in.current_phase>>

\* C6 (gap-out extension): with t_in_phase >= min_green, a queue on the current
\* phase, the minimum last_arrival of its approaches < gap and
\* t_in_phase < max_green, decide returns ("HOLD", current_phase), even if the
\* other phase is overdue or has the larger queue.
C6_GapOut ==
    (d_out # NoResult /\ ~InMinGreen /\ InGapOut) =>
        d_out = <<"HOLD", d_in.current_phase>>

\* C6 witness: a gap-out call on which only one approach of the current phase
\* has a queue, while the other phase is overdue and has the larger queue
C6_Witness ==
    /\ d_out # NoResult
    /\ ~InMinGreen
    /\ InGapOut
    /\ \E a \in phases[d_in.current_phase] : InQ(a) = 0
    /\ \E a \in phases[d_in.current_phase] : InLast(a) >= d_in.params.gap
    /\ InOverdue(Other(d_in.current_phase))
    /\ InPressure(Other(d_in.current_phase)) > InPressure(d_in.current_phase)

\* C7 (as claimed): with t_in_phase >= max_green decide returns SWITCH to the
\* other phase.
C7_MaxGreenForcesSwitch ==
    (d_out # NoResult /\ d_in.t_in_phase >= d_in.params.max_green) =>
        d_out = <<"SWITCH", Other(d_in.current_phase)>>

\* C8 (queue non-negativity): in every engine, after reset() and after any
\* sequence of step() and switch calls, every approach's q is >= 0.
C8_QueueNonNegative == \A a \in Approaches : state[a].q >= 0

\* C8 witness: a step of EnhancedNeatAdapter has served an approach down to an
\* empty queue
C8_Witness ==
    /\ engine = "EnhancedNeatAdapter"
    /\ time > 0
    /\ \E a \in Approaches : served[a] > 0 /\ state[a].q = 0

\* C9 (service rule, conflicting-green exclusion): in a step() with no
\* transition in progress each approach of cur_phase is served
\* min(queue after this tick's arrivals, capacity) vehicles, capacity 2 in
\* SumoToy and 3 in NeatAdapter (1 or 2 in EnhancedNeatAdapter), and every other
\* approach 0; in a step() during a transition (or, in EnhancedNeatAdapter, one
\* that begins a transition) every approach is served 0; no step serves a
\* North/South and an East/West approach together.
C9_ServiceRule ==
    [][Stepped =>
          LET after(a) == state[a].q + arrivals'[a]
              rule(a, cap) ==
                  served'[a] = IF a \in phases[cur_phase] THEN Min(after(a), cap) ELSE 0
          IN  /\ transition > 0 => served' = Zeros
              /\ (transition = 0 /\ engine = "SumoToy") =>
                    \A a \in Approaches : rule(a, 2)
              /\ (transition = 0 /\ engine = "NeatAdapter") =>
                    \A a \in Approaches : rule(a, 3)
              /\ (transition = 0 /\ engine = "EnhancedNeatAdapter") =>
                    IF cur_phase' # cur_phase THEN served' = Zeros
                    ELSE \A a \in Approaches : \E cap \in 1..2 : rule(a, cap)
              /\ ~(served'["North"] + served'["South"] > 0
                     /\ served'["East"] + served'["West"] > 0)]_vars

\* C9 witness: SumoToy has served a green approach at capacity in the tick the
\* vehicles arrived, leaving a queue, while a red approach with a queue was not
\* served
C9_Witness ==
    /\ engine = "SumoToy"
    /\ time = 1
    /\ arrivals["North"] = 3
    /\ served["North"] = 2
    /\ state["North"].q = 1
    /\ state["East"].q > 0
    /\ served["East"] = 0

\* C10 (conservation of vehicles): after any sequence of step() and switch
\* calls since reset(), for every approach the arrivals so far equal the
\* current queue plus the vehicles served so far (and so do
\* EnhancedNeatAdapter's own total_arrivals and total_served counters).
C10_Conservation ==
    \A a \in Approaches :
        /\ balance[a] = state[a].q
        /\ engine = "EnhancedNeatAdapter" =>
              mix[a].total_arrivals = state[a].q + mix[a].total_served

\* C10 witness: after a switch, an approach has had arrivals in several ticks,
\* has been served and still has a queue
C10_Witness ==
    /\ engine \in ToyEngines
    /\ nSwitch > 0
    /\ time >= 2
    /\ \E a \in Approaches :
          /\ served[a] > 0
          /\ state[a].q > 0
          /\ served_hist.sum > served[a]



\* C18 (engine instances are independent): the arrivals of every step() of an
\* instance are drawn from the stream of that instance's own seed at the position
\* that instance's own earlier draws have reached, whatever other engine instances
\* were constructed or stepped in between, no code other than the engines having
\* drawn from np.random since the instance was constructed.
C18_InstancesIndependent ==
    [][\A i \in InstanceIds :
          (InstStep(i) /\ i \notin app_drew) =>
              np_random = [seed |-> inst[i].seed, pos |-> inst[i].draws]]_vars


\* C20 (reset() restores the initial state, SumoToy and NeatAdapter): when reset()
\* returns, every approach has q = 0, last_arrival = 0 and max_wait = 0, cur_phase,
\* t_in_phase, transition and time are 0, both histories are empty, and metrics()
\* reports avg_wait = 0, throughput = 0 and total_queue = 0.
C20_ResetRestores ==
    (engine \in ToyEngines /\ last_call = "reset") =>
        /\ \A a \in Approaches :
              state[a].q = 0 /\ state[a].last_arrival = 0 /\ state[a].max_wait = 0
        /\ cur_phase = 0 /\ t_in_phase = 0 /\ transition = 0 /\ time = 0
        /\ served_hist.len = 0 /\ wait_hist.len = 0
        /\ metrics.avg_wait[1] = 0
        /\ metrics.throughput = 0
        /\ metrics.total_queue = 0

\* C20 witness: reset() has returned on a SumoToy
C20_Witness ==
    /\ engine = "SumoToy"
    /\ last_call = "reset"
    /\ metrics = [avg_wait |-> <<0, 1>>, throughput |-> 0, total_queue |-> 0]


PlanReturned == d_in.op = "compute_phase_plan" /\ d_out # NoResult

PlanConfig == ConfigOrDefault(d_in.config)

\* twice the demand of a group, written out: 2 * counts + queues
TwiceDemand(a1, a2) ==
    2 * (Get(d_in.counts, a1) + Get(d_in.counts, a2))
        + Get(d_in.queues, a1) + Get(d_in.queues, a2)

TwiceNs == TwiceDemand("North", "South")

TwiceEw == TwiceDemand("East", "West")

\* C11 (green split sums to the cycle): every plan compute_phase_plan returns has
\* ns_green + ew_green = cycle_length.
C11_SplitSumsToCycle ==
    PlanReturned => RAdd(d_out.ns_green, d_out.ew_green) = PlanConfig.cycle_length


\* C12 (zero-demand law): when counts and queues are empty or all zero, the plan
\* is ns_green = ew_green = config.baseline_green with a predicted delay
\* reduction of 0.
C12_ZeroDemand ==
    (/\ PlanReturned
     /\ \A a \in DOMAIN d_in.counts : d_in.counts[a] = 0
     /\ \A a \in DOMAIN d_in.queues : d_in.queues[a] = 0) =>
        /\ d_out.ns_green = PlanConfig.baseline_green
        /\ d_out.ew_green = PlanConfig.baseline_green
        /\ d_out.predicted_delay_reduction = RInt(0)

\* C12 witness: all-zero counts for the four approaches under a 60 s cycle
C12_Witness ==
    /\ PlanReturned
    /\ d_in.counts = [a \in Approaches |-> 0]
    /\ d_in.queues = <<>>
    /\ d_in.config = DemoConfig(60)
    /\ d_out.ns_green = RInt(40)
    /\ d_out.reason = NoDemandReason

\* cycle_length * (responsiveness * ns_demand / total + (1 - responsiveness) * 0.5)
\* over a common denominator, clamped to [min_green, max_green]
ProportionalNs ==
    LET c == PlanConfig
        r == c.responsiveness
        tot == TwiceNs + TwiceEw
        raw == Rat(c.cycle_length.num * (2 * r.num * TwiceNs + (r.den - r.num) * tot),
                   c.cycle_length.den * 2 * r.den * tot)
    IN  IF RLess(raw, c.min_green) THEN c.min_green
        ELSE IF RLess(c.max_green, raw) THEN c.max_green
        ELSE raw

\* C13 (demand-proportional split): for non-zero demand, with queued vehicles at
\* half weight and missing approaches at 0, ns_green is the clamped proportional
\* value and ew_green = cycle_length - ns_green whenever that is >= min_green;
\* counts North = South = 10, East = West = 0 with no queues and the default
\* config give 55 / 25 and a strictly positive predicted delay reduction.
C13_ProportionalSplit ==
    (PlanReturned /\ TwiceNs + TwiceEw > 0) =>
        /\ ~RLess(RSub(PlanConfig.cycle_length, ProportionalNs), PlanConfig.min_green) =>
              /\ d_out.ns_green = ProportionalNs
              /\ d_out.ew_green = RSub(PlanConfig.cycle_length, ProportionalNs)
        /\ (/\ Get(d_in.counts, "North") = 10 /\ Get(d_in.counts, "South") = 10
            /\ Get(d_in.counts, "East") = 0 /\ Get(d_in.counts, "West") = 0
            /\ TwiceNs = 40 /\ TwiceEw = 0
            /\ PlanConfig = ControllerConfig) =>
              /\ d_out.ns_green = RInt(55)
              /\ d_out.ew_green = RInt(25)
              /\ d_out.predicted_delay_reduction.num > 0

\* C13 witness: the 10/10/0/0 example under the default config
C13_Witness ==
    /\ PlanReturned
    /\ d_in.counts = [a \in Approaches |-> IF a \in {"North", "South"} THEN 10 ELSE 0]
    /\ d_in.queues = [a \in {"East"} |-> 0]
    /\ d_in.config = NoConfig
    /\ d_out.ns_green = RInt(55)
    /\ d_out.ew_green = RInt(25)
    /\ d_out.predicted_delay_reduction = Rat(75, 2)

\* C14 (minimum green on both axes): for non-zero demand and min_green <=
\* max_green, ns_green >= min_green and ew_green >= min_green.
C14_MinGreenBothAxes ==
    (PlanReturned /\ TwiceNs + TwiceEw > 0) =>
        /\ ~RLess(d_out.ns_green, PlanConfig.min_green)
        /\ ~RLess(d_out.ew_green, PlanConfig.min_green)

\* C14 witness: a 20 s cycle, where the East/West deficit is shifted off ns_green
\* and the floor holds ns_green at min_green
C14_Witness ==
    /\ PlanReturned
    /\ d_in.config = ShortCycleConfig
    /\ TwiceNs > 0
    /\ TwiceEw = 0
    /\ d_out.ns_green = RInt(12)
    /\ d_out.ew_green = RInt(12)

\* demand * max(0, 1 - green / cycle_length) * cycle_length / 2 for twice the
\* demand d2, written out
DelayOf(d2, green) ==
    LET c == PlanConfig.cycle_length
        red == RSub(RInt(1), RDiv(green, c))
    IN  IF RLess(red, RInt(0)) THEN RInt(0)
        ELSE RMul(RMul(Rat(d2, 4), red), c)

\* C15 (delay-reduction estimate): predicted_delay_reduction is
\* max(0, (baseline_delay - adaptive_delay) / baseline_delay * 100), the baseline
\* being green = cycle_length / 2 on each axis, and 0 when baseline_delay is 0.
C15_DelayReduction ==
    PlanReturned =>
        LET half == RDiv(PlanConfig.cycle_length, RInt(2))
            baseline == RAdd(DelayOf(TwiceNs, half), DelayOf(TwiceEw, half))
            adaptive == RAdd(DelayOf(TwiceNs, d_out.ns_green),
                             DelayOf(TwiceEw, d_out.ew_green))
        IN  d_out.predicted_delay_reduction =
                IF baseline.num = 0 THEN RInt(0)
                ELSE RMax(RInt(0),
                          RMul(RDiv(RSub(baseline, adaptive), baseline), RInt(100)))


\* the plan compute_phase_plan returns for the rows of one cycle alone
OwnPlan(cycle) ==
    LET own == SelectSeq(d_in.rows, LAMBDA r : r.cycle = cycle)
        seen == {own[i].approach : i \in DOMAIN own}
        lastOf(a) == CHOOSE i \in DOMAIN own :
                        own[i].approach = a /\ \A j \in (i + 1)..Len(own) : own[j].approach # a
    IN  compute_phase_plan([a \in seen |-> own[lastOf(a)].vehicles],
                           [a \in seen |-> own[lastOf(a)].queue],
                           d_in.config)

\* C16 (evaluate_sequence): one result row per distinct cycle id, in ascending
\* cycle order, each with its cycle id and the ns_green, ew_green, reason and
\* predicted delay reduction compute_phase_plan returns for that cycle's rows
\* alone.
C16_EvaluateSequence ==
    (d_in.op = "evaluate_sequence" /\ d_out # NoResult) =>
        LET out == d_out.rows
        IN  /\ Len(out) = Cardinality({d_in.rows[i].cycle : i \in DOMAIN d_in.rows})
            /\ \A k \in 1..(Len(out) - 1) : out[k].cycle < out[k + 1].cycle
            /\ \A k \in DOMAIN out :
                  /\ \E i \in DOMAIN d_in.rows : d_in.rows[i].cycle = out[k].cycle
                  /\ out[k].ns_green = OwnPlan(out[k].cycle).ns_green
                  /\ out[k].ew_green = OwnPlan(out[k].cycle).ew_green
                  /\ out[k].reason = OwnPlan(out[k].cycle).reason
                  /\ out[k].predicted_delay_reduction_pct =
                         OwnPlan(out[k].cycle).predicted_delay_reduction

\* C16 witness: a frame whose rows come cycle 2 first, then cycle 0 twice for
\* different approaches, evaluated to the rows of cycle 0 and cycle 2
C16_Witness ==
    /\ d_in.op = "evaluate_sequence"
    /\ d_out # NoResult
    /\ Len(d_in.rows) = 3
    /\ d_in.rows[1].cycle = 2
    /\ d_in.rows[2].cycle = 0
    /\ d_in.rows[3].cycle = 0
    /\ d_in.rows[2].approach # d_in.rows[3].approach
    /\ Len(d_out.rows) = 2
    /\ d_out.rows[1].cycle = 0
    /\ d_out.rows[2].cycle = 2
    /\ d_out.rows[1].ns_green # d_out.rows[2].ns_green


\* C17 (scenario lookups fail fast): scenario_config and load_recorded_counts
\* raise the unknown-scenario error for a name that is no preset and return no
\* configuration or rows; load_recorded_counts for a preset whose recording file
\* is absent raises a different, recording-missing error; nothing is substituted.
C17_ScenarioFailFast ==
    (d_in.op \in {"scenario_config", "load_recorded_counts"} /\ d_out # NoResult) =>
        /\ d_in.name \notin {"Morning peak", "Evening balanced", "Incident eastbound"} =>
              /\ DOMAIN d_out = {"raised", "message"}
              /\ d_out.raised = "KeyError"
        /\ (/\ d_in.op = "load_recorded_counts"
            /\ d_in.name = "Morning peak" /\ "morning_peak.csv" \notin d_in.files) =>
              /\ DOMAIN d_out = {"raised", "message"}
              /\ d_out.raised = "FileNotFoundError"
        /\ (/\ d_in.op = "load_recorded_counts"
            /\ d_in.name = "Evening balanced" /\ "evening_clear.csv" \notin d_in.files) =>
              /\ DOMAIN d_out = {"raised", "message"}
              /\ d_out.raised = "FileNotFoundError"
        /\ (/\ d_in.op = "load_recorded_counts"
            /\ d_in.name = "Incident eastbound" /\ "incident_east.csv" \notin d_in.files) =>
              /\ DOMAIN d_out = {"raised", "message"}
              /\ d_out.raised = "FileNotFoundError"

\* C17 witness: load_recorded_counts("Morning peak") has raised with only the
\* other two recordings present
C17_Witness ==
    /\ d_in.op = "load_recorded_counts"
    /\ d_in.name = "Morning peak"
    /\ d_in.files = {"evening_clear.csv", "incident_east.csv"}
    /\ d_out = Raised("FileNotFoundError", "Recorded data missing")


\* C21 (HOLD keeps, SWITCH changes): the target_phase decide() returns equals
\* current_phase exactly when the action is HOLD, and with SWITCH it is the other
\* phase.
C21_HoldKeepsSwitchChanges ==
    (d_in.op = "decide" /\ d_out # NoResult) =>
        /\ d_out[1] \in {"HOLD", "SWITCH"}
        /\ d_out[1] = "HOLD" <=> d_out[2] = d_in.current_phase
        /\ d_out[1] = "SWITCH" => d_out[2] = Other(d_in.current_phase)

\* C21 witness: East/West is current and overdue itself, North/South is not, and
\* the larger queue of North/South makes the call answer SWITCH to phase 0
C21_Witness ==
    /\ d_in.op = "decide"
    /\ d_in.current_phase = 1
    /\ InOverdue(1)
    /\ ~InOverdue(0)
    /\ InPressure(0) > InPressure(1)
    /\ d_out = <<"SWITCH", 0>>


\* C22 (wait accumulator): after every step(), for every approach, max_wait is
\* the number of consecutive ticks, ending with this one, at whose end the queue
\* was non-empty: it is one more than before when the queue is non-empty at the
\* end of the tick and 0 when it is empty, also in the tick whose service
\* empties the queue; so max_wait = 0 exactly when q = 0.
C22_WaitAccumulator ==
    [][Stepped =>
          \A a \in Approaches :
             /\ state'[a].q > 0 => state'[a].max_wait = state[a].max_wait + 1
             /\ state'[a].q = 0 => state'[a].max_wait = 0
             /\ state'[a].max_wait = 0 => state'[a].q = 0]_vars

\* C22 witness: a SumoToy step has emptied a queue that had waited, while
\* another approach has been waiting for three ticks
C22_Witness ==
    /\ engine = "SumoToy"
    /\ last_call = "step"
    /\ \E a, b \in Approaches :
          /\ served[a] > 0
          /\ balance[a] = 0
          /\ state[a].max_wait = 0
          /\ state[b].q > 0
          /\ state[b].max_wait = 3


\* C23 (time since arrival, both engine variants): in the snapshot step()
\* returns, an approach that received an arrival in that tick has
\* last_arrival = 0 and one that received none has last_arrival one greater
\* than before, for SumoToy and EnhancedNeatAdapter alike.
C23_LastArrivalSameContract ==
    [][Stepped =>
          \A a \in Approaches :
             IF arrivals'[a] > 0 THEN state'[a].last_arrival = 0
             ELSE state'[a].last_arrival = state[a].last_arrival + 1]_vars


\* C24 (metrics() returns): in every reachable state of SumoToy, NeatAdapter and
\* EnhancedNeatAdapter, also right after reset(), a metrics() call ends by
\* returning avg_wait, throughput and total_queue; it never raises.
C24_MetricsReturns ==
    (d_in.op = "metrics" /\ d_out # NoResult) =>
        /\ DOMAIN d_out = {"returned"}
        /\ {"avg_wait", "throughput", "total_queue"} \subseteq DOMAIN d_out.returned

\* run_episode is in its adaptive branch
Adaptive == d_in.controller_mode # "Fixed 40s"

\* the loop body has just called engine.switch_phase()
SwitchCalled == nSwitch' = nSwitch + 1

\* C25 (minimum green of the composed system): in run_episode's adaptive mode on
\* SumoToy, switch_phase() is called only when no transition countdown is running
\* and the current phase has been served for at least min_green ticks since its
\* transition completed
C25_MinGreenComposed ==
    [][Adaptive /\ SwitchCalled
          => transition = 0 /\ t_in_phase >= d_in.params.min_green]_vars

\* C26 (fixed-time baseline): in run_episode's 'Fixed 40s' mode on SumoToy,
\* switch_phase() is called only after a completed transition, once for every 40
\* seconds of green: at most one call per 40 ticks of the episode
C26_FixedKeepsServing ==
    [][~Adaptive /\ SwitchCalled
          => transition = 0 /\ FixedGreen * (nSwitch + 1) <= time]_vars

\* the ticks a phase can be kept waiting once an approach of it is overdue: the
\* rest of the other phase's green, with a transition before and after it
StarvationBound(p) == p.max_green + 2 * TransitionLength

\* C27 (no starvation under the adaptive driver): an approach that has been
\* overdue (max_wait > params.max_wait) for more than StarvationBound ticks
\* belongs to a phase that has been current since reset(); phase 1 is current
\* only after a switch_phase() call
C27_NoStarvation ==
    Adaptive =>
        \A a \in phases[1] :
            state[a].max_wait > d_in.params.max_wait + StarvationBound(d_in.params)
                => nSwitch > 0

\* C28 (both greens within the configured bounds): for non-zero demand and the
\* default ControllerConfig, min_green <= ns_green <= max_green and
\* min_green <= ew_green <= max_green.
C28_BothGreensBounded ==
    (PlanReturned /\ TwiceNs + TwiceEw > 0 /\ PlanConfig = ControllerConfig) =>
        /\ ~RLess(d_out.ns_green, PlanConfig.min_green)
        /\ ~RLess(PlanConfig.max_green, d_out.ns_green)
        /\ ~RLess(d_out.ew_green, PlanConfig.min_green)
        /\ ~RLess(PlanConfig.max_green, d_out.ew_green)

\* C29 (vehicle-mix bookkeeping): in EnhancedNeatAdapter, after reset() and after
\* every step(), the per-class counts of every approach sum to its queue length.
C29_MixMatchesQueue ==
    (engine = "EnhancedNeatAdapter" /\ last_call \in {"reset", "step"}) =>
        \A a \in Approaches : MixTotal(mix[a].vehicle_types) = state[a].q

\* C30 (every approach can receive traffic): whenever EnhancedNeatAdapter can
\* take a step(), each of the four approaches has an outcome of the direction
\* draw that delivers the tick's vehicle to it (its total_arrivals grows); every
\* tick draws the direction afresh, so this is what lets a sequence of steps
\* bring traffic to the approach
C30_EveryApproachReceives ==
    (engine = "EnhancedNeatAdapter" /\ EnhBudget >= 1) =>
        \A a \in Approaches :
            ENABLED (EnhStep /\ mix'[a].total_arrivals > mix[a].total_arrivals)

\* the converse of C30's case, for reference: an approach other than North never
\* has an arrival in EnhancedNeatAdapter
OnlyNorthReceives ==
    engine = "EnhancedNeatAdapter" =>
        \A a \in Approaches \ {"North"} : mix[a].total_arrivals = 0

====
